---- MODULE Spec2Model ----
(***************************************************************************)
(* Model of the conversation pipeline of the ObsidianChat plugin           *)
(* (src/main.ts): parseMessages, getProjectContext, processMessageLinks,   *)
(* callAI and its three adapters, processNoteCreation and the handler      *)
(* handleChatCommand that chains them.                                     *)
(*                                                                         *)
(* Text is a sequence of tokens.  A token is one character, or one fixed   *)
(* literal of the source that no other token is a part of (the tag         *)
(* literals of the note directive, the tool instruction block, the labels  *)
(* the handler prepends).  Every literal that starts with "<" is a token   *)
(* of its own and "<" alone is not a token, so a text has one              *)
(* tokenisation and substring search on tokens is substring search on      *)
(* characters.                                                             *)
(***************************************************************************)
EXTENDS Integers, Sequences, FiniteSets, TLC

\* ------------------------------------------------------------------------
\* Bounds of the model
\* ------------------------------------------------------------------------
MaxDocParts == 2
MaxReplyParts == 2
MaxNoteParts == 3
MaxNoteRuns == 2
MaxParseParts == 4
MaxInsertions == 1
MaxLinkParts == 3
MaxEdits == 1

\* ------------------------------------------------------------------------
\* Characters and literals
\* ------------------------------------------------------------------------
NL == "\n"
SP == " "
US == "_"

\* String.prototype.trim whitespace, restricted to the characters in use
IsSpace(c) == c \in {SP, NL}

\* [^\w] of the fallback rule: \w is a letter, a digit or the underscore
WordChars == {"a", "i", "m", "h", "9", US, "g", "p", "t", "H", "e", "l", "o",
              "s", "d", "x", "y", "u", "A", "B", "N", "P"}
IsWordChar(c) == c \in WordChars

Last(s) == s[Len(s)]
Min(a, b) == IF a < b THEN a ELSE b

\* s.substring(i) with 1-based i
Drop(s, n) == SubSeq(s, n + 1, Len(s))

\* s.startsWith(p)
StartsWith(s, p) == Len(s) >= Len(p) /\ SubSeq(s, 1, Len(p)) = p

\* first 1-based index at which sub occurs in s, 0 when it does not
\* (String.prototype.indexOf, shifted by one)
IndexOf(s, sub) ==
    LET hits == {i \in 1..(Len(s) - Len(sub) + 1) : SubSeq(s, i, i + Len(sub) - 1) = sub}
    IN IF hits = {} THEN 0 ELSE CHOOSE i \in hits : \A j \in hits : i <= j

\* s.contains(sub) / s.includes(sub)
Contains(s, sub) == IndexOf(s, sub) # 0

\* String.prototype.trim
TrimStart(s) ==
    LET keep == {i \in 1..Len(s) : ~IsSpace(s[i])}
    IN IF keep = {} THEN <<>>
       ELSE SubSeq(s, CHOOSE i \in keep : \A j \in keep : i <= j, Len(s))
TrimEnd(s) ==
    LET keep == {i \in 1..Len(s) : ~IsSpace(s[i])}
    IN IF keep = {} THEN <<>>
       ELSE SubSeq(s, 1, CHOOSE i \in keep : \A j \in keep : i >= j)
Trim(s) == TrimEnd(TrimStart(s))

\* concatenation of a sequence of texts
RECURSIVE Flatten(_)
Flatten(ss) == IF ss = <<>> THEN <<>> ELSE Head(ss) \o Flatten(Tail(ss))

\* all sequences over S of length at most n
SeqsUpTo(S, n) == UNION {[1..k -> S] : k \in 0..n}

\* ------------------------------------------------------------------------
\* parseMessages
\* ------------------------------------------------------------------------
\* End of the match of /_(?:\s*_){2,}/ that starts at an underscore at j
\* having seen cnt underscores: each greedy repetition skips whitespace and
\* takes the next underscore.  Returns <<last underscore, count>>.
\* SepChain for /_{3,}/: the underscores have to be adjacent
RECURSIVE SepChain_NoSpace(_, _, _)
SepChain_NoSpace(text, j, cnt) ==
    IF j + 1 <= Len(text) /\ text[j + 1] = US
    THEN SepChain_NoSpace(text, j + 1, cnt + 1) ELSE <<j, cnt>>

RECURSIVE SepChain(_, _, _)
SepChain(text, j, cnt) ==
    LET after == {k \in (j + 1)..Len(text) : ~IsSpace(text[k])}
        k == IF after = {} THEN 0 ELSE CHOOSE x \in after : \A y \in after : x <= y
    IN IF k # 0 /\ text[k] = US THEN SepChain(text, k, cnt + 1) ELSE <<j, cnt>>

\* 0 when the separator regex does not match at i, else the last index of
\* the match
SepMatchEnd(text, i) ==
    IF text[i] # US THEN 0
    ELSE LET c == SepChain(text, i, 1) IN IF c[2] >= 3 THEN c[1] ELSE 0

\* text.split(/_(?:\s*_){2,}/): scan from i, the current part starts at start
RECURSIVE SplitFrom(_, _, _)
SplitFrom(text, i, start) ==
    IF i > Len(text) THEN <<SubSeq(text, start, Len(text))>>
    ELSE LET e == SepMatchEnd(text, i)
         IN IF e # 0
            THEN <<SubSeq(text, start, i - 1)>> \o SplitFrom(text, e + 1, e + 1)
            ELSE SplitFrom(text, i + 1, start)
SplitSeparators(text) == SplitFrom(text, 1, 1)

AiMarker == <<"a", "i", ":", ":">>

\* part.replace(/^ai::.*?[^\w]/, ''): only a part that begins with the
\* marker is changed; the lazy run ends at the first non-word character
\* after the marker (the run does not cross a newline)
StripAiPrefix(part) ==
    IF ~StartsWith(part, AiMarker) THEN part
    ELSE LET stops == {k \in 5..Len(part) : ~IsWordChar(part[k])}
             k == IF stops = {} THEN 0 ELSE CHOOSE x \in stops : \A y \in stops : x <= y
         IN IF k = 0 \/ (\E n \in 5..(k - 1) : part[n] = NL) THEN part
            ELSE Drop(part, k)

\* the body of the loop of parseMessages for one trimmed, non-empty part
ParsePart(part) ==
    IF Contains(part, AiMarker)
    THEN LET newlineIndex == IndexOf(part, <<NL>>) - 1
         IN [role |-> "assistant",
             content |-> IF newlineIndex > 0
                         THEN Trim(Drop(part, newlineIndex + 1))
                         ELSE Trim(StripAiPrefix(part))]
    ELSE [role |-> "user", content |-> part]

\* ParseParts without part.trim()
RECURSIVE ParseParts_NoTrim(_)
ParseParts_NoTrim(parts) ==
    IF parts = <<>> THEN <<>>
    ELSE (IF Head(parts) = <<>> THEN <<>> ELSE <<ParsePart(Head(parts))>>)
         \o ParseParts_NoTrim(Tail(parts))

RECURSIVE ParseParts(_)
ParseParts(parts) ==
    IF parts = <<>> THEN <<>>
    ELSE LET part == Trim(Head(parts))
         IN (IF part = <<>> THEN <<>> ELSE <<ParsePart(part)>>) \o ParseParts(Tail(parts))

parseMessages(text) == ParseParts(SplitSeparators(text))

\* ------------------------------------------------------------------------
\* The vault (document store)
\* ------------------------------------------------------------------------
\* Literals of the directive grammar
\* /<create-note name="([^"]+)">([\s\S]*?)<\/create-note>/g
TagOpen == "<create-note name="
Quote == "\""
Gt == ">"
TagClose == "</create-note>"

\* Names a directive can carry ([^"]+).  "$&" is the two characters that
\* String.prototype.replace reads as "the matched substring" when they
\* occur in a replacement string.
DollarAmp == "$&"
Names == {<<"A">>, <<"B">>, <<DollarAmp>>}

RootPath == <<"/">>
ProjFolder == <<"Project P">>
Parents == {RootPath, ProjFolder}

\* `${name}.md`
FileName(name) == name \o <<".md">>

\* parentPath === '/' ? fileName : `${parentPath}/${fileName}`
FilePath(parentPath, name) ==
    IF parentPath = RootPath THEN FileName(name)
    ELSE parentPath \o <<"/">> \o FileName(name)

NotePaths == {FilePath(p, n) : p \in Parents, n \in Names}

\* An entry of the vault: nothing, a file (TFile) with its content, or a
\* folder (TFolder)
NoEntry == [kind |-> "none", content |-> <<>>]
FileEntry(c) == [kind |-> "file", content |-> c]
FolderEntry == [kind |-> "folder", content |-> <<>>]
EmptyVault == [p \in NotePaths |-> NoEntry]

\* vault.getAbstractFileByPath
getAbstractFileByPath(st, path) == IF path \in DOMAIN st THEN st[path] ELSE NoEntry

\* vault.append(file, data): raises when the host operation fails
VaultAppend(st, path, data, hostFails) ==
    IF hostFails THEN [ok |-> FALSE, store |-> st]
    ELSE [ok |-> TRUE, store |-> [st EXCEPT ![path] = FileEntry(@.content \o data)]]

\* vault.create(path, data): raises when the host operation fails or when
\* the path is taken
VaultCreate(st, path, data, hostFails) ==
    IF hostFails \/ getAbstractFileByPath(st, path).kind # "none"
    THEN [ok |-> FALSE, store |-> st]
    ELSE [ok |-> TRUE, store |-> [st EXCEPT ![path] = FileEntry(data)]]

\* ------------------------------------------------------------------------
\* processNoteCreation
\* ------------------------------------------------------------------------
FirstAtOrAfter(text, from, tok) ==
    LET hits == {k \in from..Len(text) : text[k] = tok}
    IN IF hits = {} THEN 0 ELSE CHOOSE k \in hits : \A j \in hits : k <= j

\* One attempt of the directive regex at position i: the record of the
\* match, last = 0 when there is none
DirectiveAt(text, i) ==
    LET none == [last |-> 0, fullMatch |-> <<>>, name |-> <<>>, content |-> <<>>]
    IN IF i + 1 > Len(text) \/ text[i] # TagOpen \/ text[i + 1] # Quote THEN none
       ELSE LET q == FirstAtOrAfter(text, i + 2, Quote)
            IN IF q = 0 \/ q = i + 2 \/ q + 1 > Len(text) \/ text[q + 1] # Gt THEN none
               ELSE LET c == FirstAtOrAfter(text, q + 2, TagClose)
                    IN IF c = 0 THEN none
                       ELSE [last |-> c,
                             fullMatch |-> SubSeq(text, i, c),
                             name |-> SubSeq(text, i + 2, q - 1),
                             content |-> SubSeq(text, q + 2, c - 1)]

\* while ((match = regex.exec(text)) !== null) findings.push(...)
RECURSIVE FindDirectives(_, _)
FindDirectives(text, i) ==
    IF i > Len(text) THEN <<>>
    ELSE LET m == DirectiveAt(text, i)
         IN IF m.last = 0 THEN FindDirectives(text, i + 1)
            ELSE <<[fullMatch |-> m.fullMatch, name |-> m.name, content |-> m.content]>>
                 \o FindDirectives(text, m.last + 1)

\* the replacement string `[[${name}]]` as String.prototype.replace expands
\* it: "$&" stands for the matched substring
RECURSIVE ExpandReplacement(_, _)
ExpandReplacement(repl, matched) ==
    IF repl = <<>> THEN <<>>
    ELSE (IF Head(repl) = DollarAmp THEN matched ELSE <<Head(repl)>>)
         \o ExpandReplacement(Tail(repl), matched)

LinkTo(name) == <<"[", "[">> \o name \o <<"]", "]">>

\* processedText.replace(fullMatch, `[[${name}]]`): a string pattern
\* replaces the first occurrence only
ReplaceFirst(text, pattern, repl) ==
    LET at == IndexOf(text, pattern)
    IN IF at = 0 THEN text
       ELSE SubSeq(text, 1, at - 1) \o ExpandReplacement(repl, pattern)
            \o SubSeq(text, at + Len(pattern), Len(text))

\* NoteStep with the appended text lacking its leading newline
NoteStep_NoNewline(acc, item, parentPath, hostFails) ==
    LET filePath == FilePath(parentPath, item.name)
        existingFile == getAbstractFileByPath(acc.store, filePath)
        r == IF existingFile.kind = "file"
             THEN VaultAppend(acc.store, filePath, item.content, hostFails)
             ELSE VaultCreate(acc.store, filePath, item.content, hostFails)
    IN IF r.ok
       THEN [text |-> ReplaceFirst(acc.text, item.fullMatch, LinkTo(item.name)),
             store |-> r.store,
             notices |-> Append(acc.notices,
                                <<IF existingFile.kind = "file" THEN "Appended to " ELSE "Created ">>
                                \o FileName(item.name)),
             ok |-> Append(acc.ok, TRUE)]
       ELSE [text |-> acc.text,
             store |-> acc.store,
             notices |-> Append(acc.notices, <<"Failed to write note ">> \o item.name),
             ok |-> Append(acc.ok, FALSE)]

\* One iteration of `for (const item of findings)`: acc carries
\* processedText, the vault, the notices and the per-item outcome
NoteStep(acc, item, parentPath, hostFails) ==
    LET filePath == FilePath(parentPath, item.name)
        existingFile == getAbstractFileByPath(acc.store, filePath)
        r == IF existingFile.kind = "file"
             THEN VaultAppend(acc.store, filePath, <<NL>> \o item.content, hostFails)
             ELSE VaultCreate(acc.store, filePath, item.content, hostFails)
    IN IF r.ok
       THEN [text |-> ReplaceFirst(acc.text, item.fullMatch, LinkTo(item.name)),
             store |-> r.store,
             notices |-> Append(acc.notices,
                                <<IF existingFile.kind = "file" THEN "Appended to " ELSE "Created ">>
                                \o FileName(item.name)),
             ok |-> Append(acc.ok, TRUE)]
       ELSE [text |-> acc.text,
             store |-> acc.store,
             notices |-> Append(acc.notices, <<"Failed to write note ">> \o item.name),
             ok |-> Append(acc.ok, FALSE)]

\* NoteLoop with the try block around the whole loop: the first failure
\* ends it
RECURSIVE NoteLoop_StopsOnFailure(_, _, _, _, _)
NoteLoop_StopsOnFailure(acc, findings, k, parentPath, fails) ==
    IF k > Len(findings) THEN acc
    ELSE LET next == NoteStep(acc, findings[k], parentPath, k \in fails)
         IN IF ~Last(next.ok) THEN next
            ELSE NoteLoop_StopsOnFailure(next, findings, k + 1, parentPath, fails)

RECURSIVE NoteLoop(_, _, _, _, _)
NoteLoop(acc, findings, k, parentPath, fails) ==
    IF k > Len(findings) THEN acc
    ELSE NoteLoop(NoteStep(acc, findings[k], parentPath, k \in fails),
                  findings, k + 1, parentPath, fails)

\* processNoteCreation(text, currentFile): fails is the set of positions
\* in findings whose vault call raises.  The result holds the returned
\* text, the vault afterwards, the notices shown and, per finding, whether
\* its mutation succeeded.
processNoteCreation(text, parentPath, st, fails) ==
    NoteLoop([text |-> text, store |-> st, notices |-> <<>>, ok |-> <<>>],
             FindDirectives(text, 1), 1, parentPath, fails)

\* ------------------------------------------------------------------------
\* Settings, frontmatter overrides, messages
\* ------------------------------------------------------------------------
Providers == {"openai", "anthropic", "gemini"}

\* DEFAULT_SETTINGS.systemPrompt, kept as one literal
DefaultPrompt == <<"You are an intelligent assistant">>

\* The block the handler adds to overrides.system: two newlines and the
\* instructions for the note directive
ToolInstructions == <<NL, NL, "YOU HAVE THE ABILITY TO CREATE OR APPEND TO NOTES">>

Sentinel == <<"+", "+", "+">>

\* ChatContext with nothing set ('' and undefined are both falsy)
NoOverrides == [provider |-> "", model |-> <<>>, system |-> <<>>]

Msg(role, content) == [role |-> role, content |-> content]

\* getModelName
getModelName(settings, provider) ==
    CASE provider = "openai" -> settings.openaiModel
      [] provider = "anthropic" -> settings.anthropicModel
      [] provider = "gemini" -> settings.geminiModel
      [] OTHER -> <<"unknown">>

\* ------------------------------------------------------------------------
\* The gateway: callAI and the three adapters up to requestUrl
\* ------------------------------------------------------------------------
Thrown(message) == [kind |-> "error", message |-> message, reply |-> <<>>]

NoRequest ==
    [sent |-> FALSE, provider |-> "", credential |-> "", model |-> <<>>,
     messages |-> <<>>, hasSystem |-> FALSE, system |-> <<>>, maxTokens |-> 0]

Requested(req) == [kind |-> "request", request |-> req]

\* callOpenAI with the system instruction pushed at the end of the list
callOpenAI_SystemLast(settings, messages, overrides) ==
    IF settings.openaiApiKey = "" THEN Thrown(<<"OpenAI API Key not set.">>)
    ELSE Requested(
        [sent |-> TRUE, provider |-> "openai",
         credential |-> settings.openaiApiKey,
         model |-> IF overrides.model # <<>> THEN overrides.model ELSE settings.openaiModel,
         messages |-> IF overrides.system # <<>>
                      THEN Append(messages, Msg("system", overrides.system))
                      ELSE messages,
         hasSystem |-> FALSE, system |-> <<>>, maxTokens |-> 0])

\* callOpenAI up to the request: the system instruction is put at the head
\* of a copy of the message list
callOpenAI(settings, messages, overrides) ==
    IF settings.openaiApiKey = "" THEN Thrown(<<"OpenAI API Key not set.">>)
    ELSE Requested(
        [sent |-> TRUE, provider |-> "openai",
         credential |-> settings.openaiApiKey,
         model |-> IF overrides.model # <<>> THEN overrides.model ELSE settings.openaiModel,
         messages |-> IF overrides.system # <<>>
                      THEN <<Msg("system", overrides.system)>> \o messages
                      ELSE messages,
         hasSystem |-> FALSE, system |-> <<>>, maxTokens |-> 0])

\* callAnthropic up to the request: system is a top-level field
callAnthropic(settings, messages, overrides) ==
    IF settings.anthropicApiKey = "" THEN Thrown(<<"Anthropic API Key not set.">>)
    ELSE Requested(
        [sent |-> TRUE, provider |-> "anthropic",
         credential |-> settings.anthropicApiKey,
         model |-> IF overrides.model # <<>> THEN overrides.model ELSE settings.anthropicModel,
         messages |-> messages,
         hasSystem |-> overrides.system # <<>>, system |-> overrides.system,
         maxTokens |-> 1024])

\* callGemini up to the request: contents with the role renamed,
\* systemInstruction is a top-level field
callGemini(settings, messages, overrides) ==
    IF settings.geminiApiKey = "" THEN Thrown(<<"Gemini API Key not set.">>)
    ELSE Requested(
        [sent |-> TRUE, provider |-> "gemini",
         credential |-> settings.geminiApiKey,
         model |-> IF overrides.model # <<>> THEN overrides.model ELSE settings.geminiModel,
         messages |-> [k \in 1..Len(messages) |->
                          Msg(IF messages[k].role = "assistant" THEN "model" ELSE "user",
                              messages[k].content)],
         hasSystem |-> overrides.system # <<>>, system |-> overrides.system,
         maxTokens |-> 0])

\* The system instruction callAI leaves in overrides.system
EffectiveSystem(settings, system) ==
    IF system # <<>> /\ StartsWith(system, Sentinel)
    THEN settings.systemPrompt \o <<NL>> \o Trim(Drop(system, 3))
    ELSE IF system = <<>> /\ settings.systemPrompt # <<>>
         THEN settings.systemPrompt
         ELSE system

\* callAI that selects the adapter by the process default alone
callAI_IgnoresProviderOverride(settings, messages, overrides) ==
    LET provider == settings.selectedProvider
        ov == [overrides EXCEPT !.system = EffectiveSystem(settings, overrides.system)]
    IN CASE provider = "openai" -> callOpenAI(settings, messages, ov)
         [] provider = "anthropic" -> callAnthropic(settings, messages, ov)
         [] provider = "gemini" -> callGemini(settings, messages, ov)
         [] OTHER -> Thrown(<<"Unknown provider selected.">>)

\* callAI up to the request of the adapter it selects
callAI(settings, messages, overrides) ==
    LET provider == IF overrides.provider # "" THEN overrides.provider
                    ELSE settings.selectedProvider
        ov == [overrides EXCEPT !.system = EffectiveSystem(settings, overrides.system)]
    IN CASE provider = "openai" -> callOpenAI(settings, messages, ov)
         [] provider = "anthropic" -> callAnthropic(settings, messages, ov)
         [] provider = "gemini" -> callGemini(settings, messages, ov)
         [] OTHER -> Thrown(<<"Unknown provider selected.">>)

\* ------------------------------------------------------------------------
\* The adapters after requestUrl returned
\* ------------------------------------------------------------------------
\* A response of requestUrl: the status, the raw body (response.text) and
\* what response.json holds: hasReply says whether the JSON has the field
\* the adapter reads the reply from, reply is that field
Response(status, text, hasReply, reply) ==
    [status |-> status, text |-> text, hasReply |-> hasReply, reply |-> reply]

Returned(reply) == [kind |-> "reply", message |-> <<>>, reply |-> reply]

NoResponseText == <<"(No response text found)">>

AdapterLabel(provider) ==
    CASE provider = "openai" -> "OpenAI"
      [] provider = "anthropic" -> "Anthropic"
      [] OTHER -> "Gemini"

\* `${label} request failed: ${response.status} ${response.text} ` (the
\* Gemini message has no trailing blank)
RequestFailed(provider, response) ==
    <<AdapterLabel(provider), " request failed: ", ToString(response.status), SP>>
    \o response.text
    \o (IF provider = "gemini" THEN <<>> ELSE <<SP>>)

\* if (response.status >= 400) throw ...
StatusFails(status) == status >= 400

\* The rest of callOpenAI / callAnthropic / callGemini: the status check,
\* then the reply read from response.json.  Reading choices[0] or
\* content[0] of a JSON that has no such field raises a TypeError; Gemini
\* answers with a fixed text instead.
AdapterResult(provider, response) ==
    IF StatusFails(response.status) THEN Thrown(RequestFailed(provider, response))
    ELSE IF response.hasReply THEN Returned(response.reply)
    ELSE IF provider = "gemini" THEN Returned(NoResponseText)
    ELSE Thrown(<<"Cannot read properties of undefined">>)

\* ------------------------------------------------------------------------
\* Enrichment: getProjectContext and processMessageLinks
\* ------------------------------------------------------------------------
\* view.file: a TFile or null
NoFile == [present |-> FALSE, basename |-> <<>>, parent |-> RootPath]
TheFile(basename, parent) == [present |-> TRUE, basename |-> basename, parent |-> parent]

ProjectPrefix == "Project "
NoteOpenTag == "<existing-note name="
NoteCloseTag == "</existing-note>"

\* the last token of a path is its extension
Extension(path) == IF path = <<>> THEN "" ELSE path[Len(path)]
IsTextFile(path) == Extension(path) \in {".md", ".txt"}

\* parent.children in a fixed order: the current file, then the notes of
\* the folder.  Each child carries its basename, path and content.
NameOrder == <<<<"A">>, <<"B">>, <<DollarAmp>>>>
Children(st, currentFile) ==
    LET self == <<[basename |-> currentFile.basename,
                   path |-> FilePath(currentFile.parent, currentFile.basename),
                   isFile |-> TRUE, content |-> <<>>]>>
        entry(n) == getAbstractFileByPath(st, FilePath(currentFile.parent, n))
        notes == [k \in 1..Len(NameOrder) |->
                    [basename |-> NameOrder[k],
                     path |-> FilePath(currentFile.parent, NameOrder[k]),
                     isFile |-> entry(NameOrder[k]).kind = "file",
                     content |-> entry(NameOrder[k]).content]]
    IN self \o SelectSeq(notes, LAMBDA c : getAbstractFileByPath(st, c.path).kind # "none")

RECURSIVE ContextLoop(_, _, _)
ContextLoop(children, k, currentFile) ==
    IF k > Len(children) THEN [text |-> <<>>, reads |-> 0]
    ELSE LET child == children[k]
             rest == ContextLoop(children, k + 1, currentFile)
             skip == \/ ~child.isFile
                     \/ child.basename = currentFile.basename
                     \/ child.path = FilePath(currentFile.parent, currentFile.basename)
                     \/ ~IsTextFile(child.path)
         IN IF skip THEN rest
            ELSE [text |-> <<NL, NoteOpenTag, Quote>> \o child.basename \o <<Quote, Gt, NL>>
                           \o child.content \o <<NL, NoteCloseTag, NL>> \o rest.text,
                  reads |-> 1 + rest.reads]

\* getProjectContext: the text and the number of vault.read calls it makes
getProjectContext(st, currentFile) ==
    IF ~StartsWith(currentFile.basename, <<ProjectPrefix>>)
    THEN [text |-> <<>>, reads |-> 0]
    ELSE ContextLoop(Children(st, currentFile), 1, currentFile)

FirstOfAtOrAfter(text, from, toks) ==
    LET hits == {k \in from..Len(text) : text[k] \in toks}
    IN IF hits = {} THEN 0 ELSE CHOOSE k \in hits : \A j \in hits : k <= j

NoLink == [last |-> 0, path |-> <<>>]

\* one attempt of /\[\[([^\]|]+)(?:\|[^\]]+)?\]\]/ at position i
WikiLinkAt(text, i) ==
    IF i + 1 > Len(text) \/ text[i] # "[" \/ text[i + 1] # "[" THEN NoLink
    ELSE LET k == FirstOfAtOrAfter(text, i + 2, {"]", "|"})
         IN IF k = 0 \/ k = i + 2 THEN NoLink
            ELSE IF text[k] = "]"
                 THEN IF k + 1 <= Len(text) /\ text[k + 1] = "]"
                      THEN [last |-> k + 1, path |-> SubSeq(text, i + 2, k - 1)]
                      ELSE NoLink
                 ELSE LET e == FirstOfAtOrAfter(text, k + 1, {"]"})
                      IN IF e # 0 /\ e > k + 1 /\ e + 1 <= Len(text) /\ text[e + 1] = "]"
                         THEN [last |-> e + 1, path |-> SubSeq(text, i + 2, k - 1)]
                         ELSE NoLink

\* one attempt of /\[([^\]]+)\]\(([^)]+)\)/ at position i
MdLinkAt(text, i) ==
    IF text[i] # "[" THEN NoLink
    ELSE LET k == FirstOfAtOrAfter(text, i + 1, {"]"})
         IN IF k = 0 \/ k = i + 1 \/ k + 1 > Len(text) \/ text[k + 1] # "(" THEN NoLink
            ELSE LET e == FirstOfAtOrAfter(text, k + 2, {")"})
                 IN IF e = 0 \/ e = k + 2 THEN NoLink
                    ELSE [last |-> e, path |-> SubSeq(text, k + 2, e - 1)]

\* while ((match = regex.exec(content)) !== null) matches.push(...)
RECURSIVE ScanLinks(_, _, _)
ScanLinks(text, i, wiki) ==
    IF i > Len(text) THEN <<>>
    ELSE LET m == IF wiki THEN WikiLinkAt(text, i) ELSE MdLinkAt(text, i)
         IN IF m.last = 0 THEN ScanLinks(text, i + 1, wiki)
            ELSE <<m.path>> \o ScanLinks(text, m.last + 1, wiki)

\* a link path that ends in an extension names that file, any other link
\* path names a note
Extensions == {".md", ".txt", ".png"}
HasExtension(linkpath) == linkpath # <<>> /\ Last(linkpath) \in Extensions
LinkPath(parentPath, linkpath) ==
    IF ~HasExtension(linkpath) THEN FilePath(parentPath, linkpath)
    ELSE IF parentPath = RootPath THEN linkpath
    ELSE parentPath \o <<"/">> \o linkpath

\* TFile.basename: the name of the file without its extension
Basename(linkpath) ==
    IF HasExtension(linkpath) THEN SubSeq(linkpath, 1, Len(linkpath) - 1) ELSE linkpath

\* metadataCache.getFirstLinkpathDest: the note the link path names, looked
\* up in the folder of the source first; <<>> when there is none
getFirstLinkpathDest(st, linkpath, parentPath) ==
    LET here == LinkPath(parentPath, linkpath)
        there == {LinkPath(p, linkpath) : p \in Parents \ {parentPath}}
        found == {q \in there : getAbstractFileByPath(st, q).kind = "file"}
    IN IF getAbstractFileByPath(st, here).kind = "file" THEN here
       ELSE IF found = {} THEN <<>>
       ELSE CHOOSE q \in found : TRUE

RECURSIVE LinkLoop(_, _, _, _)
LinkLoop(matches, k, st, currentFile) ==
    IF k > Len(matches) THEN [text |-> <<>>, reads |-> 0]
    ELSE LET destFile == getFirstLinkpathDest(st, matches[k], currentFile.parent)
             rest == LinkLoop(matches, k + 1, st, currentFile)
         IN IF destFile # <<>> /\ IsTextFile(destFile)
            THEN [text |-> <<NL, NoteOpenTag, Quote>> \o Basename(matches[k]) \o <<Quote, Gt>>
                           \o st[destFile].content \o <<NL, NoteCloseTag, NL>> \o rest.text,
                  reads |-> 1 + rest.reads]
            ELSE rest

\* processMessageLinks with the two grammars scanned in the other order
processMessageLinks_MdFirst(st, content, currentFile) ==
    [LinkLoop(ScanLinks(content, 1, FALSE) \o ScanLinks(content, 1, TRUE),
              1, st, currentFile)
        EXCEPT !.text = content \o @]

\* processMessageLinks: the enriched content and the number of vault.read
\* calls it makes
processMessageLinks(st, content, currentFile) ==
    [LinkLoop(ScanLinks(content, 1, TRUE) \o ScanLinks(content, 1, FALSE),
              1, st, currentFile)
        EXCEPT !.text = content \o @]

\* for (const msg of messages) if (msg.role === 'user' && view.file) ...
\* msg.content = await this.processMessageLinks(msg.content, view.file),
\* r being what processMessageLinks gave
EnrichStep(msg, r, rest) ==
    [messages |-> <<Msg(msg.role, r.text)>> \o rest.messages,
     reads |-> r.reads + rest.reads]

RECURSIVE EnrichLoop(_, _, _, _)
EnrichLoop(messages, k, st, currentFile) ==
    IF k > Len(messages) THEN [messages |-> <<>>, reads |-> 0]
    ELSE IF messages[k].role = "user" /\ currentFile.present
    THEN EnrichStep(messages[k],
                    processMessageLinks(st, messages[k].content, currentFile),
                    EnrichLoop(messages, k + 1, st, currentFile))
    ELSE [EnrichLoop(messages, k + 1, st, currentFile)
             EXCEPT !.messages = <<messages[k]>> \o @]

\* ------------------------------------------------------------------------
\* The editor
\* ------------------------------------------------------------------------
\* editor.lineCount()
LineCount(text) == Cardinality({k \in 1..Len(text) : text[k] = NL}) + 1

\* offset of the editor position {line, ch}; a position past the last line
\* is clipped to the end of the document
PosToOffset(text, line, ch) ==
    IF line >= LineCount(text) THEN Len(text)
    ELSE LET starts == {0} \cup {k \in 1..Len(text) : text[k] = NL}
             before(k) == Cardinality({j \in 1..k : text[j] = NL})
             start == CHOOSE k \in starts : before(k) = line
             ends == {k \in (start + 1)..Len(text) : text[k] = NL}
             lineLen == (IF ends = {} THEN Len(text)
                         ELSE (CHOOSE k \in ends : \A j \in ends : k <= j) - 1) - start
         IN start + Min(ch, lineLen)

\* editor.replaceRange(replacement, from): insertion at from
replaceRange(text, replacement, line, ch) ==
    LET at == PosToOffset(text, line, ch)
    IN SubSeq(text, 1, at) \o replacement \o SubSeq(text, at + 1, Len(text))

\* ------------------------------------------------------------------------
\* Inputs the model draws from
\* ------------------------------------------------------------------------
\* A part of a reply: plain text, or one directive
\* <create-note name="X">BODY</create-note>
TextPart(t) == [dir |-> FALSE, name |-> <<>>, body |-> <<>>, text |-> t]
DirPart(n, b) == [dir |-> TRUE, name |-> n, body |-> b, text |-> <<>>]
DirectiveText(n, b) == <<TagOpen, Quote>> \o n \o <<Quote, Gt>> \o b \o <<TagClose>>
PartText(p) == IF p.dir THEN DirectiveText(p.name, p.body) ELSE p.text
PartsText(parts) == Flatten([k \in 1..Len(parts) |-> PartText(parts[k])])

\* parts of the replies of the remote side
ReplyPieces == {TextPart(<<"s">>), DirPart(<<"A">>, <<"x">>), DirPart(<<"B">>, <<"y">>)}
\* parts of the texts processNoteCreation is run on directly
NotePieces ==
    {TextPart(<<"s">>), DirPart(<<"A">>, <<"x">>), DirPart(<<"A">>, <<"y">>),
     DirPart(<<"B">>, <<"x">>), DirPart(<<DollarAmp>>, <<"x">>)}

\* parts of the documents: a separator, a blank, a word, a link to note A,
\* the header line of an assistant block
DocPieces ==
    {<<US, US, US>>, <<SP>>, <<"h">>, <<"[", "[", "A", "]", "]">>,
     <<"a", "i", ":", ":", "m", NL>>}
Docs == {Flatten(ps) : ps \in SeqsUpTo(DocPieces, MaxDocParts)}

Statuses == {200, 301, 400, 500}
ErrorBodies == {<<"{}">>, <<"{error}">>}
ReplyBody(reply) == <<"{reply:">> \o reply \o <<"}">>

\* vaults at the start: empty, or with a note or a folder at A.md of the
\* folder of the current file
InitVaults(parentPath) ==
    {EmptyVault,
     [EmptyVault EXCEPT ![FilePath(parentPath, <<"A">>)] = FileEntry(<<"o">>)],
     [EmptyVault EXCEPT ![FilePath(parentPath, <<"A">>)] = FolderEntry]}

MkSettings(provider, ok, ak, gk, prompt) ==
    [selectedProvider |-> provider,
     openaiApiKey |-> ok, openaiModel |-> <<"m">>,
     anthropicApiKey |-> ak, anthropicModel |-> <<"m", "-", "9">>,
     geminiApiKey |-> gk, geminiModel |-> <<"m", "9">>,
     systemPrompt |-> prompt]

Prompts == {<<>>, DefaultPrompt, Sentinel \o <<"d">>}
SystemOverrides == {<<>>, <<"o">>, Sentinel \o <<SP, "o">>, <<SP>> \o Sentinel \o <<"o">>}
\* the three API keys: all set, or one of them empty
KeySets == {<<"k1", "k2", "k3">>, <<"", "k2", "k3">>, <<"k1", "", "k3">>, <<"k1", "k2", "">>}
\* every default provider with every key set under the default prompt, and
\* every default prompt with all keys set
AllSettings ==
    {MkSettings(p, ks[1], ks[2], ks[3], DefaultPrompt) :
        p \in Providers \cup {"bogus"}, ks \in KeySets}
PromptSettings == {MkSettings(p, "k1", "k2", "k3", pr) : p \in Providers, pr \in Prompts}
\* every provider and model override, and every system override
AllFrontmatter ==
    [provider : Providers \cup {"", "bogus"}, model : {<<>>, <<"h">>}, system : {<<>>}]
SystemFrontmatter == [provider : {""}, model : {<<>>}, system : SystemOverrides]

\* ------------------------------------------------------------------------
\* State
\* ------------------------------------------------------------------------
VARIABLES
    doc,          \* the text of the editor
    file,         \* view.file
    frontmatter,  \* the frontmatter of view.file in the metadata cache
    settings,     \* this.settings
    store,        \* the vault
    pc,           \* where the invocation of handleChatCommand stands
    writeMode,    \* the writeMode argument of the invocation
    call,         \* the arguments callAI was called with
    request,      \* the request the adapter gave to requestUrl
    response,     \* the response requestUrl returned
    outcome,      \* what callAI resolved or rejected with
    notices,      \* the notices shown, oldest first
    reads,        \* number of vault.read calls made
    docBefore,    \* the text of the editor when the invocation began
    storeBefore,  \* the vault when the invocation began
    replyParts,   \* the parts the reply of the remote side was made of
    noteOk,       \* per directive of the reply, whether its mutation succeeded
    noteFails,    \* the directives of the reply whose vault call raised
    noteIn,       \* the parts of the text processNoteCreation is run on directly
    noteOut,      \* the result of the last direct run of processNoteCreation
    noteRuns,     \* number of direct runs of processNoteCreation
    noteLog,      \* the directives those runs applied with success, in order
    parseText,    \* the text parseMessages is run on directly
    spaced,       \* that text with whitespace inserted inside separator runs
    parsed,       \* parseMessages(parseText)
    parsedSpaced, \* parseMessages(spaced)
    parseDone,    \* whether parseMessages has run on them
    linkParts,    \* the parts of the content processMessageLinks is run on directly
    enriched,     \* what that run of processMessageLinks gave
    enrichDone,   \* whether processMessageLinks has run on it
    runs,         \* per overlapping invocation: where it stands, its arguments
    written,      \* the reply texts written into the editor, oldest first
    edits,        \* number of edits the user made meanwhile
    docStart      \* the text of the editor before the overlapping invocations

vars == <<doc, file, frontmatter, settings, store, pc, writeMode, call, request,
          response, outcome, notices, reads, docBefore, storeBefore, replyParts,
          noteOk, noteFails, noteIn, noteOut, noteRuns, noteLog,
          parseText, spaced, parsed, parsedSpaced, parseDone,
          linkParts, enriched, enrichDone, runs, written, edits, docStart>>

\* the variables of the runs of single operations
parseVars == <<parseText, spaced, parsed, parsedSpaced, parseDone>>
enrichVars == <<linkParts, enriched, enrichDone>>
surfaceVars == <<runs, written, edits, docStart>>
auxVars == <<parseVars, enrichVars, surfaceVars>>

NoCall == [made |-> FALSE, messages |-> <<>>, overrides |-> NoOverrides]
NoResponse == [status |-> 0, text |-> <<>>, hasReply |-> FALSE, reply |-> <<>>]
NoOutcome == [kind |-> "none", message |-> <<>>, reply |-> <<>>]
NoNoteRun == [text |-> <<>>, store |-> EmptyVault, notices |-> <<>>, ok |-> <<>>]

InitInvocation ==
    /\ pc = "idle"
    /\ writeMode = FALSE
    /\ call = NoCall
    /\ request = NoRequest
    /\ response = NoResponse
    /\ outcome = NoOutcome
    /\ notices = <<>>
    /\ reads = 0
    /\ docBefore = doc
    /\ storeBefore = store
    /\ replyParts = <<>>
    /\ noteOk = <<>>
    /\ noteFails = {}

InitNoNoteRun ==
    /\ noteIn = <<>>
    /\ noteOut = NoNoteRun
    /\ noteRuns = 0
    /\ noteLog = <<>>

InitNoParse ==
    /\ parseText = <<>>
    /\ spaced = <<>>
    /\ parsed = <<>>
    /\ parsedSpaced = <<>>
    /\ parseDone = FALSE

InitNoEnrich ==
    /\ linkParts = <<>>
    /\ enriched = [text |-> <<>>, reads |-> 0]
    /\ enrichDone = FALSE

Invocations == {1, 2}
NotStarted == [pc |-> "idle", wm |-> FALSE, text |-> <<>>]

InitNoSurface ==
    /\ runs = [i \in Invocations |-> NotStarted]
    /\ written = <<>>
    /\ edits = 0
    /\ docStart = <<>>

\* no run of a single operation is under way
InitAuxIdle == InitNoParse /\ InitNoEnrich /\ InitNoSurface

Env(f, fm, s, st) == [file |-> f, frontmatter |-> fm, settings |-> s, store |-> st]

\* The surroundings of the pipeline runs: no file, a note in the root with
\* each vault, a project note beside an existing note, a provider without
\* key, an unknown provider in the frontmatter
Environments ==
    {Env(NoFile, NoOverrides, MkSettings("openai", "k1", "", "", DefaultPrompt), EmptyVault)}
    \cup {Env(TheFile(<<"N">>, RootPath), NoOverrides,
              MkSettings("openai", "k1", "", "", DefaultPrompt), st) :
             st \in InitVaults(RootPath)}
    \cup {Env(TheFile(<<ProjectPrefix, "P">>, ProjFolder), NoOverrides,
              MkSettings("gemini", "", "", "k3", DefaultPrompt), st) :
             st \in InitVaults(ProjFolder) \ {EmptyVault}}
    \cup {Env(TheFile(<<"N">>, RootPath), NoOverrides,
              MkSettings("anthropic", "k1", "", "k3", DefaultPrompt), EmptyVault),
          Env(TheFile(<<"N">>, RootPath), [NoOverrides EXCEPT !.provider = "bogus"],
              MkSettings("openai", "k1", "", "", DefaultPrompt), EmptyVault)}

\* The pipeline on many documents, in a few surroundings
Init ==
    /\ doc \in Docs
    /\ \E e \in Environments :
          /\ file = e.file
          /\ frontmatter = e.frontmatter
          /\ settings = e.settings
          /\ store = e.store
    /\ InitInvocation
    /\ InitNoNoteRun
    /\ InitAuxIdle

\* The pipeline on one document, with every configuration of providers,
\* keys and models, and every configuration of system instructions
InitGateway ==
    /\ doc = <<"h", US, US, US, "a", "i", ":", ":", "m", NL, "h">>
    /\ file \in {NoFile, TheFile(<<"N">>, RootPath)}
    /\ \/ /\ settings \in AllSettings
          /\ frontmatter \in (IF file.present THEN AllFrontmatter ELSE {NoOverrides})
       \/ /\ settings \in PromptSettings
          /\ frontmatter \in (IF file.present THEN SystemFrontmatter ELSE {NoOverrides})
    /\ store = EmptyVault
    /\ InitInvocation
    /\ InitNoNoteRun
    /\ InitAuxIdle

\* ------------------------------------------------------------------------
\* handleChatCommand
\* ------------------------------------------------------------------------
BlankNotice == <<"No text found to chat with.">>
AskingNotice(provider) == <<"Asking ", provider, "...">>
\* `Error: ${error.message} `
ErrorNotice(message) == <<"Error: ">> \o message \o <<SP>>

\* IsBlank without the trim
IsBlank_NoTrim(text) == text = <<>>

\* if (!textToChat.trim())
IsBlank(text) == Trim(text) = <<>>

\* overrides after the frontmatter of view.file was read
ReadFrontmatter(currentFile, fm) == IF currentFile.present THEN fm ELSE NoOverrides

\* if (!overrides.system) overrides.system = this.settings.systemPrompt;
\* overrides.system += tool instructions
InjectToolInstructions(systemPrompt, overrides) ==
    [overrides EXCEPT !.system =
        (IF @ = <<>> THEN systemPrompt ELSE @) \o ToolInstructions]

\* messages as they stand when the link loop begins
BuildMessages(text, st, currentFile) ==
    LET ctx == IF currentFile.present THEN getProjectContext(st, currentFile)
               ELSE [text |-> <<>>, reads |-> 0]
    IN [messages |-> (IF ctx.text # <<>>
                      THEN <<Msg("user", <<"Project Context:", NL>> \o ctx.text)>>
                      ELSE <<>>)
                     \o (IF currentFile.present
                         THEN <<Msg("user", <<"Note Title: ">> \o currentFile.basename)>>
                         ELSE <<>>)
                     \o parseMessages(text),
        reads |-> ctx.reads]

\* `\n${response}\n` or `\n___\nai::${modelNameDisplay}\n${response}\n___\n`
ReplyText(wm, modelNameDisplay, reply) ==
    IF wm THEN <<NL>> \o reply \o <<NL>>
    ELSE <<NL, US, US, US, NL>> \o AiMarker \o modelNameDisplay \o <<NL>>
         \o reply \o <<NL, US, US, US, NL>>

\* overrides.model || this.getModelName(overrides.provider || selectedProvider)
ModelNameDisplay(s, overrides) ==
    IF overrides.model # <<>> THEN overrides.model
    ELSE getModelName(s, IF overrides.provider # "" THEN overrides.provider
                         ELSE s.selectedProvider)

\* The try block of handleChatCommand after callAI resolved with reply:
\* the directives are applied when the view has a file, and the reply is
\* inserted at the end of the editor
\* InsertReply at the start of the last line, {line: lineCount - 1, ch: 0}
InsertReply_AtLastLine(noted, text, wm, label) ==
    [doc |-> replaceRange(text, ReplyText(wm, label, noted.text), LineCount(text) - 1, 0),
     store |-> noted.store, notices |-> noted.notices, ok |-> noted.ok,
     pc |-> "done"]

\* replyText is built from the text processNoteCreation returned and
\* inserted at {line: editor.lineCount(), ch: 0}
InsertReply(noted, text, wm, label) ==
    [doc |-> replaceRange(text, ReplyText(wm, label, noted.text), LineCount(text), 0),
     store |-> noted.store, notices |-> noted.notices, ok |-> noted.ok,
     pc |-> "done"]

AppendReply(reply, currentFile, text, st, wm, label, fails) ==
    InsertReply(IF currentFile.present
                THEN processNoteCreation(reply, currentFile.parent, st, fails)
                ELSE [text |-> reply, store |-> st, notices |-> <<>>, ok |-> <<>>],
                text, wm, label)

\* AfterCallAI with a catch block that also writes the error into the
\* editor
AfterCallAI_WritesError(r, currentFile, text, st, wm, label, fails) ==
    IF r.kind = "error"
    THEN [doc |-> replaceRange(text, ReplyText(wm, label, r.message), LineCount(text), 0),
          store |-> st, notices |-> <<ErrorNotice(r.message)>>,
          ok |-> <<>>, pc |-> "failed"]
    ELSE AppendReply(r.reply, currentFile, text, st, wm, label, fails)

\* The try block of handleChatCommand once callAI has settled with r, and
\* its catch: a rejection is shown and nothing else happens
AfterCallAI(r, currentFile, text, st, wm, label, fails) ==
    IF r.kind = "error"
    THEN [doc |-> text, store |-> st, notices |-> <<ErrorNotice(r.message)>>,
          ok |-> <<>>, pc |-> "failed"]
    ELSE AppendReply(r.reply, currentFile, text, st, wm, label, fails)

\* handleChatCommand from its start to the await of requestUrl inside the
\* adapter.  readFails says whether vault.read raises when it is called:
\* the reads of the enrichment are outside the try block, so the handler
\* then ends with the exception.
handleChatCommand(wm, readFails) ==
    /\ pc = "idle"
    /\ writeMode' = wm
    /\ docBefore' = doc
    /\ storeBefore' = store
    /\ UNCHANGED <<file, frontmatter, settings, response, replyParts, noteFails,
                   noteIn, noteOut, noteRuns, noteLog, auxVars>>
    /\ IF IsBlank(doc)
       THEN /\ ~readFails
            /\ notices' = Append(notices, BlankNotice)
            /\ pc' = "rejected"
            /\ UNCHANGED <<doc, store, call, request, outcome, reads, noteOk>>
       ELSE \E built \in {BuildMessages(doc, store, file)} :
            \E linked \in {EnrichLoop(built.messages, 1, store, file)} :
            \E overrides \in {InjectToolInstructions(settings.systemPrompt,
                                                     ReadFrontmatter(file, frontmatter))} :
            \E r \in {callAI(settings, linked.messages, overrides)} :
               IF readFails
               THEN /\ built.reads + linked.reads > 0
                    /\ pc' = "raised"
                    /\ reads' = reads + 1
                    /\ UNCHANGED <<doc, store, call, request, outcome, notices, noteOk>>
               ELSE /\ reads' = reads + built.reads + linked.reads
                    /\ call' = [made |-> TRUE, messages |-> linked.messages,
                                overrides |-> overrides]
                    /\ IF r.kind = "error"
                       THEN \E end \in {AfterCallAI(r, file, doc, store, wm,
                                                    ModelNameDisplay(settings, overrides), {})} :
                               /\ outcome' = r
                               /\ doc' = end.doc
                               /\ store' = end.store
                               /\ noteOk' = end.ok
                               /\ notices' = Append(notices, AskingNotice(settings.selectedProvider))
                                             \o end.notices
                               /\ pc' = end.pc
                               /\ UNCHANGED request
                       ELSE /\ request' = r.request
                            /\ notices' = Append(notices, AskingNotice(settings.selectedProvider))
                            /\ pc' = "waiting"
                            /\ UNCHANGED <<doc, store, outcome, noteOk>>

\* handleChatCommand from the return of requestUrl to its end: the adapter
\* reads the response and the try block goes on.  status and text are the
\* status and the raw body of the response, hasReply says whether its JSON
\* holds a reply, parts are the parts that reply is made of, fails the set
\* of directives whose vault call raises.
requestUrlReturns(status, text, hasReply, parts, fails) ==
    /\ pc = "waiting"
    /\ \E resp \in {Response(status, text, hasReply, PartsText(parts))} :
       \E r \in {AdapterResult(request.provider, resp)} :
          /\ fails \subseteq (IF r.kind = "reply" /\ file.present
                              THEN 1..Len(FindDirectives(r.reply, 1)) ELSE {})
          /\ \E end \in {AfterCallAI(r, file, doc, store, writeMode,
                                      ModelNameDisplay(settings, call.overrides), fails)} :
              /\ response' = resp
              /\ noteFails' = fails
              /\ outcome' = r
              /\ replyParts' = parts
              /\ doc' = end.doc
              /\ store' = end.store
              /\ noteOk' = end.ok
              /\ notices' = notices \o end.notices
              /\ pc' = end.pc
    /\ UNCHANGED <<file, frontmatter, settings, writeMode, call, request, reads,
                   docBefore, storeBefore, noteIn, noteOut, noteRuns, noteLog, auxVars>>

ReplyPartSeqs == SeqsUpTo(ReplyPieces, MaxReplyParts)

Next ==
    \/ \E wm \in BOOLEAN, readFails \in BOOLEAN : handleChatCommand(wm, readFails)
    \/ \E status \in Statuses, parts \in ReplyPartSeqs, fails \in SUBSET (1..MaxReplyParts) :
          requestUrlReturns(status, ReplyBody(PartsText(parts)), TRUE, parts, fails)
    \/ \E status \in Statuses, body \in ErrorBodies :
          requestUrlReturns(status, body, FALSE, <<>>, {})

Spec == Init /\ [][Next]_vars
SpecGateway == InitGateway /\ [][Next]_vars

\* ------------------------------------------------------------------------
\* processNoteCreation run on its own, several times over the same text
\* ------------------------------------------------------------------------
NoteFiles == {TheFile(<<"N">>, RootPath), TheFile(<<ProjectPrefix, "P">>, ProjFolder)}

InitNotes ==
    /\ noteIn \in SeqsUpTo(NotePieces, MaxNoteParts)
    /\ file \in NoteFiles
    /\ store \in InitVaults(file.parent)
    /\ noteOut = NoNoteRun
    /\ noteRuns = 0
    /\ noteLog = <<>>
    /\ doc = <<>>
    /\ frontmatter = NoOverrides
    /\ settings = MkSettings("openai", "k1", "", "", DefaultPrompt)
    /\ InitInvocation
    /\ InitAuxIdle

\* the directive parts of a sequence of parts, in order
Directives(parts) == SelectSeq(parts, LAMBDA p : p.dir)

\* the entries of ds whose flag in ok is TRUE, in order
RECURSIVE Succeeded(_, _)
Succeeded(ds, ok) ==
    IF ds = <<>> \/ ok = <<>> THEN <<>>
    ELSE (IF Head(ok) THEN <<Head(ds)>> ELSE <<>>) \o Succeeded(Tail(ds), Tail(ok))

runProcessNoteCreation(fails) ==
    /\ noteRuns < MaxNoteRuns
    /\ fails \subseteq 1..Len(FindDirectives(PartsText(noteIn), 1))
    /\ \E r \in {processNoteCreation(PartsText(noteIn), file.parent, store, fails)} :
          /\ noteOut' = r
          /\ store' = r.store
          /\ noteLog' = noteLog \o Succeeded(Directives(noteIn), r.ok)
    /\ noteRuns' = noteRuns + 1
    /\ UNCHANGED <<doc, file, frontmatter, settings, pc, writeMode, call, request,
                   response, outcome, notices, reads, docBefore, storeBefore,
                   replyParts, noteOk, noteFails, noteIn, auxVars>>

NextNotes == \E fails \in SUBSET (1..MaxNoteParts) : runProcessNoteCreation(fails)

SpecNotes == InitNotes /\ [][NextNotes]_vars

\* ------------------------------------------------------------------------
\* parseMessages run on its own
\* ------------------------------------------------------------------------
\* the pipeline is not running
InitPipelineIdle ==
    /\ doc = <<>>
    /\ file = NoFile
    /\ frontmatter = NoOverrides
    /\ settings = MkSettings("openai", "k1", "", "", DefaultPrompt)
    /\ store = EmptyVault
    /\ InitInvocation
    /\ InitNoNoteRun
pipelineVars ==
    <<doc, file, frontmatter, settings, store, pc, writeMode, call, request,
      response, outcome, notices, reads, docBefore, storeBefore, replyParts,
      noteOk, noteFails, noteIn, noteOut, noteRuns, noteLog>>

\* parts of the texts: separators, one underscore, whitespace, a word, the
\* marker of an assistant block, a model label with a "-"
ParsePieces ==
    {<<US, US, US>>, <<US>>, <<SP>>, <<NL>>, <<"H", "e", "l", "l", "o">>,
     AiMarker, <<"g", "p", "t", "-", "9">>}
ParseTexts == {Flatten(ps) : ps \in SeqsUpTo(ParsePieces, MaxParseParts)}

\* A separator run as the comment of parseMessages words it: 3 or more
\* underscores with nothing but whitespace between them, from text[i] to
\* text[e]
IsSeparatorRun(text, i, e) ==
    /\ text[i] = US
    /\ text[e] = US
    /\ \A k \in i..e : text[k] = US \/ IsSpace(text[k])
    /\ Cardinality({k \in i..e : text[k] = US}) >= 3
HasSeparatorRun(text) ==
    \E i \in 1..Len(text), e \in 1..Len(text) : IsSeparatorRun(text, i, e)

InitParse ==
    /\ parseText \in ParseTexts
    /\ spaced = parseText
    /\ parsed = <<>>
    /\ parsedSpaced = <<>>
    /\ parseDone = FALSE
    /\ InitPipelineIdle
    /\ InitNoEnrich
    /\ InitNoSurface

\* the editor puts the whitespace c between two underscores of a separator
\* run
insertWhitespace(c) ==
    /\ ~parseDone
    /\ Len(spaced) - Len(parseText) < MaxInsertions
    /\ \E k \in 1..(Len(spaced) - 1) :
          /\ \E i \in 1..k, e \in (k + 1)..Len(spaced) : IsSeparatorRun(spaced, i, e)
          /\ spaced' = SubSeq(spaced, 1, k) \o <<c>> \o SubSeq(spaced, k + 1, Len(spaced))
    /\ UNCHANGED <<parseText, parsed, parsedSpaced, parseDone, pipelineVars, enrichVars,
                   surfaceVars>>

runParseMessages ==
    /\ ~parseDone
    /\ parsed' = parseMessages(parseText)
    /\ parsedSpaced' = parseMessages(spaced)
    /\ parseDone' = TRUE
    /\ UNCHANGED <<parseText, spaced, pipelineVars, enrichVars, surfaceVars>>

NextParse ==
    \/ \E c \in {SP, NL} : insertWhitespace(c)
    \/ runParseMessages

SpecParse == InitParse /\ [][NextParse]_vars

\* ------------------------------------------------------------------------
\* processMessageLinks run on its own
\* ------------------------------------------------------------------------
\* A part of a content: plain text, a bracketed link [[target]] or
\* [[target|alias]], or an inline link [label](target)
PlainPart(t) == [kind |-> "text", target |-> <<>>, text |-> t]
WikiPart(target) ==
    [kind |-> "wiki", target |-> target, text |-> <<"[", "[">> \o target \o <<"]", "]">>]
AliasPart(target, alias) ==
    [kind |-> "wiki", target |-> target,
     text |-> <<"[", "[">> \o target \o <<"|">> \o alias \o <<"]", "]">>]
MdPart(label, target) ==
    [kind |-> "md", target |-> target,
     text |-> <<"[">> \o label \o <<"]", "(">> \o target \o <<")">>]
LinkPartsText(parts) == Flatten([k \in 1..Len(parts) |-> parts[k].text])

ImageName == <<"I", ".png">>
LinkPieces ==
    {PlainPart(<<"h">>), WikiPart(<<"A">>), AliasPart(<<"B">>, <<"x">>),
     MdPart(<<"x">>, <<"A">>), MdPart(<<"x">>, <<"G">>), WikiPart(ImageName)}

\* vaults that also hold an image
EnrichPaths == NotePaths \cup {LinkPath(p, ImageName) : p \in Parents}
EmptyEnrichVault == [p \in EnrichPaths |-> NoEntry]
EnrichVaults(parentPath) ==
    {EmptyEnrichVault,
     [EmptyEnrichVault EXCEPT ![FilePath(parentPath, <<"A">>)] = FileEntry(<<"o">>),
                              ![LinkPath(parentPath, ImageName)] = FileEntry(<<"z">>)],
     [EmptyEnrichVault EXCEPT ![FilePath(parentPath, <<"A">>)] = FolderEntry,
                              ![FilePath(parentPath, <<"B">>)] = FileEntry(<<"y">>)],
     [EmptyEnrichVault EXCEPT ![FilePath(CHOOSE p \in Parents : p # parentPath, <<"A">>)]
                                  = FileEntry(<<"o">>),
                              ![FilePath(parentPath, <<"B">>)] = FileEntry(<<"y">>)]}

InitEnrich ==
    /\ linkParts \in SeqsUpTo(LinkPieces, MaxLinkParts)
    /\ enriched = [text |-> <<>>, reads |-> 0]
    /\ enrichDone = FALSE
    /\ file \in NoteFiles
    /\ store \in EnrichVaults(file.parent)
    /\ doc = <<>>
    /\ frontmatter = NoOverrides
    /\ settings = MkSettings("openai", "k1", "", "", DefaultPrompt)
    /\ InitInvocation
    /\ InitNoNoteRun
    /\ InitNoParse
    /\ InitNoSurface

runProcessMessageLinks ==
    /\ ~enrichDone
    /\ enriched' = processMessageLinks(store, LinkPartsText(linkParts), file)
    /\ enrichDone' = TRUE
    /\ UNCHANGED <<linkParts, pipelineVars, parseVars, surfaceVars>>

NextEnrich == runProcessMessageLinks

SpecEnrich == InitEnrich /\ [][NextEnrich]_vars

\* ------------------------------------------------------------------------
\* Overlapping invocations of handleChatCommand on one editor
\* ------------------------------------------------------------------------
\* Each invocation reads the editor when it starts, awaits callAI and then
\* writes; another invocation or the user can act during the await.  The
\* reply callAI and processNoteCreation end with is an input.
SurfaceDocs == {<<>>, <<"h">>, <<"h", NL>>, <<"h", NL, "h">>}
SurfaceReplies == {<<>>, <<"s">>, <<"s", NL, "s">>}
UserTokens == {"u", NL}

invocationVars ==
    <<pc, writeMode, call, request, response, outcome, notices, reads, docBefore,
      storeBefore, replyParts, noteOk, noteFails>>
noteVars == <<noteIn, noteOut, noteRuns, noteLog>>

InitSurface ==
    /\ doc \in SurfaceDocs
    /\ docStart = doc
    /\ runs = [i \in Invocations |-> NotStarted]
    /\ written = <<>>
    /\ edits = 0
    /\ file = NoFile
    /\ frontmatter = NoOverrides
    /\ settings = MkSettings("openai", "k1", "", "", DefaultPrompt)
    /\ store = EmptyVault
    /\ InitInvocation
    /\ InitNoNoteRun
    /\ InitNoParse
    /\ InitNoEnrich

\* invocation i begins: const text = editor.getValue(), the blank check
startChat(i, wm) ==
    /\ runs[i].pc = "idle"
    /\ runs' = [runs EXCEPT ![i] = [pc |-> IF IsBlank(doc) THEN "rejected" ELSE "waiting",
                                    wm |-> wm, text |-> doc]]
    /\ UNCHANGED <<doc, written, edits, docStart, file, frontmatter, settings, store,
                   invocationVars, noteVars, parseVars, enrichVars>>

\* callAI of invocation i resolved and the reply is written into the editor
\* as it is now
finishChat(i, reply) ==
    /\ runs[i].pc = "waiting"
    /\ doc' = InsertReply([text |-> reply, store |-> store, notices |-> <<>>, ok |-> <<>>],
                          doc, runs[i].wm, ModelNameDisplay(settings, NoOverrides)).doc
    /\ written' = Append(written,
                         ReplyText(runs[i].wm, ModelNameDisplay(settings, NoOverrides), reply))
    /\ runs' = [runs EXCEPT ![i].pc = "done"]
    /\ UNCHANGED <<edits, docStart, file, frontmatter, settings, store,
                   invocationVars, noteVars, parseVars, enrichVars>>

\* callAI of invocation i rejected: the catch block writes nothing
failChat(i) ==
    /\ runs[i].pc = "waiting"
    /\ runs' = [runs EXCEPT ![i].pc = "failed"]
    /\ UNCHANGED <<doc, written, edits, docStart, file, frontmatter, settings, store,
                   invocationVars, noteVars, parseVars, enrichVars>>

\* the user types c after the first k tokens of the editor
userTypes(c) ==
    /\ edits < MaxEdits
    /\ \E k \in 0..Len(doc) :
          doc' = SubSeq(doc, 1, k) \o <<c>> \o SubSeq(doc, k + 1, Len(doc))
    /\ edits' = edits + 1
    /\ UNCHANGED <<runs, written, docStart, file, frontmatter, settings, store,
                   invocationVars, noteVars, parseVars, enrichVars>>

NextSurface ==
    \/ \E i \in Invocations, wm \in BOOLEAN : startChat(i, wm)
    \/ \E i \in Invocations, reply \in SurfaceReplies : finishChat(i, reply)
    \/ \E i \in Invocations : failChat(i)
    \/ \E c \in UserTokens : userTypes(c)

SpecSurface == InitSurface /\ [][NextSurface]_vars

\* ------------------------------------------------------------------------
\* Properties
\* ------------------------------------------------------------------------

\* C1: when callAI rejects (a missing credential, an unknown provider, a
\* response the adapter refuses), the invocation ends there: the text of
\* the editor and the vault are what they were when the invocation began,
\* no directive was applied, and the last notice shown is the error
\* message.
C1_GatewayFailureAborts ==
    outcome.kind = "error" =>
        /\ pc = "failed"
        /\ doc = docBefore
        /\ store = storeBefore
        /\ noteOk = <<>>
        /\ notices # <<>>
        /\ Last(notices) = ErrorNotice(outcome.message)

\* C1 witness: an invocation whose request was refused by the remote side
\* although the reply carried a directive, and one that failed before any
\* request
C1_Witness_RemoteFailure ==
    /\ pc = "failed"
    /\ request.sent
    /\ response.status >= 400
    /\ file.present
    /\ \E k \in 1..Len(replyParts) : replyParts[k].dir


\* What the claims say a note holds after the bodies of the successful
\* directives for it were applied in order: a note that was absent holds
\* BODY1, newline, BODY2, ...; a note that existed holds its old content
\* followed by newline and BODY for each of them
RECURSIVE AppendedBodies(_)
AppendedBodies(bodies) ==
    IF bodies = <<>> THEN <<>> ELSE <<NL>> \o Head(bodies) \o AppendedBodies(Tail(bodies))

ExpectedEntry(entry, bodies) ==
    IF bodies = <<>> THEN entry
    ELSE IF entry.kind = "file" THEN FileEntry(entry.content \o AppendedBodies(bodies))
    ELSE IF entry.kind = "none" THEN FileEntry(Head(bodies) \o AppendedBodies(Tail(bodies)))
    ELSE entry

\* the bodies of the directives of ds that name X, in order
BodiesFor(ds, X) ==
    LET mine == SelectSeq(ds, LAMBDA d : d.name = X)
    IN [k \in 1..Len(mine) |-> mine[k].body]

\* <containing collection>/X.md, bare X.md in the root collection
TargetPath(X) ==
    IF file.parent = RootPath THEN X \o <<".md">>
    ELSE file.parent \o <<"/">> \o X \o <<".md">>

\* C2: after any number of runs of processNoteCreation, every note X of the
\* folder of the current document holds what the successful directive
\* occurrences for X, taken left to right and run after run, put there:
\* BODY alone for the first occurrence when the note did not exist, a
\* newline plus BODY for every other one, nothing deduplicated; the notes
\* of other folders are untouched.
C2_DirectivesAppliedInOrder ==
    /\ \A X \in Names :
          store[TargetPath(X)] = ExpectedEntry(storeBefore[TargetPath(X)], BodiesFor(noteLog, X))
    /\ \A q \in NotePaths :
          (\A X \in Names : q # TargetPath(X)) => store[q] = storeBefore[q]

\* C2 witness: two runs left three or more successful occurrences for one
\* note that did not exist, with different bodies, in a folder that is not
\* the root
C2_Witness_RepeatedRuns ==
    /\ noteRuns = 2
    /\ file.parent # RootPath
    /\ \E X \in Names :
          /\ storeBefore[TargetPath(X)].kind = "none"
          /\ Len(BodiesFor(noteLog, X)) >= 3
          /\ \E i, j \in 1..Len(BodiesFor(noteLog, X)) :
                BodiesFor(noteLog, X)[i] # BodiesFor(noteLog, X)[j]

\* the text the claims say processNoteCreation returns: every directive
\* part whose mutation succeeded replaced by [[X]] where it stands, every
\* other part as it was
RECURSIVE ExpectedRewrite(_, _)
ExpectedRewrite(parts, ok) ==
    IF parts = <<>> THEN <<>>
    ELSE IF ~Head(parts).dir THEN Head(parts).text \o ExpectedRewrite(Tail(parts), ok)
    ELSE (IF Head(ok) THEN <<"[", "[">> \o Head(parts).name \o <<"]", "]">>
          ELSE PartText(Head(parts)))
         \o ExpectedRewrite(Tail(parts), Tail(ok))

\* C3: the text processNoteCreation returns is its input with every
\* directive whose mutation succeeded replaced at its own position by
\* [[X]], every directive whose mutation failed left as it was, and all
\* other text unchanged.
C3_RewriteAtOwnPosition ==
    noteRuns > 0 =>
        /\ Len(noteOut.ok) = Len(Directives(noteIn))
        /\ noteOut.text = ExpectedRewrite(noteIn, noteOut.ok)

\* number of positions at which [[ begins in text
LinkCount(text) == Cardinality({k \in 1..(Len(text) - 1) : text[k] = "[" /\ text[k + 1] = "["})

\* whether the vault call of the k-th directive of the reply fails: the host
\* raised, or a folder is in the way of the note
DirectiveFails(k) ==
    \/ k \in noteFails
    \/ storeBefore[TargetPath(Directives(replyParts)[k].name)].kind = "folder"

\* C4: when the vault call of some directive of a reply fails, the
\* invocation still completes without an error, every directive of the
\* reply is attempted and succeeds unless its own vault call fails, the
\* vault holds exactly what the successful ones put there, each of them is
\* rewritten to a link, and the reply is appended to the text of the
\* editor.
C4_DirectiveFailureIsolated ==
    (/\ outcome.kind = "reply"
     /\ file.present
     /\ \E k \in 1..Len(Directives(replyParts)) : DirectiveFails(k)) =>
        /\ pc = "done"
        /\ Len(noteOk) = Len(Directives(replyParts))
        /\ \A k \in 1..Len(noteOk) : noteOk[k] = ~DirectiveFails(k)
        /\ \A X \in Names :
              store[TargetPath(X)] =
                  ExpectedEntry(storeBefore[TargetPath(X)],
                                BodiesFor(Succeeded(Directives(replyParts), noteOk), X))
        /\ StartsWith(doc, docBefore)
        /\ Len(doc) > Len(docBefore)
        /\ LinkCount(Drop(doc, Len(docBefore)))
              = Cardinality({k \in 1..Len(noteOk) : noteOk[k]})
        /\ \A k \in 1..Len(notices) : Head(notices[k]) # "Error: "

\* C4 witness: a reply with two directives, the first failed and the second
\* succeeded
C4_Witness_FailureThenSuccess ==
    /\ pc = "done"
    /\ noteOk = <<FALSE, TRUE>>
    /\ 1 \in noteFails

\* C5: whenever callAI is called, the conversation passed to it has at
\* least one turn.
C5_ConversationNeverEmpty ==
    call.made => Len(call.messages) >= 1

\* C6: an invocation on a text that is empty or all whitespace is rejected
\* with the notice of the no-content condition and nothing else happens: no
\* call of the gateway, no request, no read of the vault, no change to the
\* vault or to the text.
C6_BlankDocumentRejected ==
    (pc # "idle" /\ \A k \in 1..Len(docBefore) : docBefore[k] \in {SP, NL}) =>
        /\ pc = "rejected"
        /\ notices = <<BlankNotice>>
        /\ ~call.made
        /\ ~request.sent
        /\ reads = 0
        /\ store = storeBefore
        /\ doc = docBefore

\* C6 witness: a rejected invocation on a text of whitespace only, in a
\* project folder that has a note to read
C6_Witness_WhitespaceOnly ==
    /\ pc = "rejected"
    /\ Len(docBefore) >= 1
    /\ file.present
    /\ file.parent = ProjFolder
    /\ \E q \in NotePaths : store[q].kind = "file"

\* C7: for each adapter, a response whose status is not a success status
\* (2xx) makes the call fail with an error that carries the status and the
\* text of the body, and nothing of the body reaches the editor as a reply.
C7_NonSuccessStatusFails ==
    (response.status # 0 /\ response.status \notin 200..299) =>
        /\ outcome.kind = "error"
        /\ Contains(outcome.message, <<ToString(response.status)>>)
        /\ Contains(outcome.message, response.text)
        /\ doc = docBefore

\* the provider and the model the claims say a dispatch uses
EffectiveProvider ==
    IF call.overrides.provider # "" THEN call.overrides.provider
    ELSE settings.selectedProvider
ConfiguredKey(p) ==
    CASE p = "openai" -> settings.openaiApiKey
      [] p = "anthropic" -> settings.anthropicApiKey
      [] p = "gemini" -> settings.geminiApiKey
      [] OTHER -> ""
ConfiguredModel(p) ==
    CASE p = "openai" -> settings.openaiModel
      [] p = "anthropic" -> settings.anthropicModel
      [] p = "gemini" -> settings.geminiModel
      [] OTHER -> <<>>
ConfigurationErrors ==
    {<<"OpenAI API Key not set.">>, <<"Anthropic API Key not set.">>,
     <<"Gemini API Key not set.">>, <<"Unknown provider selected.">>}

\* C8: a dispatch goes to the provider of the override when there is one
\* and to the process default otherwise, with the model of the override
\* when there is one and the configured model of that provider otherwise;
\* when that provider is not one of the three or its key is empty, the
\* dispatch fails with a configuration error and no request is made.
C8_ProviderAndModelResolution ==
    call.made =>
        IF EffectiveProvider \notin Providers \/ ConfiguredKey(EffectiveProvider) = ""
        THEN /\ ~request.sent
             /\ response = NoResponse
             /\ pc = "failed"
             /\ outcome.kind = "error"
             /\ outcome.message \in ConfigurationErrors
        ELSE /\ request.sent
             /\ request.provider = EffectiveProvider
             /\ request.credential = ConfiguredKey(EffectiveProvider)
             /\ request.model = (IF call.overrides.model # <<>> THEN call.overrides.model
                                 ELSE ConfiguredModel(EffectiveProvider))

\* C8 witness: a request sent to a provider that is not the process default,
\* with the model of the override, while the key of the default is empty
C8_Witness_OverriddenProvider ==
    /\ request.sent
    /\ call.overrides.provider \in Providers
    /\ call.overrides.provider # settings.selectedProvider
    /\ call.overrides.model # <<>>
    /\ ConfiguredKey(settings.selectedProvider) = ""

\* C9: with a system instruction present, the request of the OpenAI
\* adapter carries one system message with the instruction followed by the
\* turns in their order and roles; the requests of the Anthropic and Gemini
\* adapters carry the turns in their order (Gemini with the assistant role
\* renamed to model), no system entry among them, and the instruction in
\* the top-level field.
C9_SystemInstructionPlacement ==
    (request.sent /\ EffectiveSystem(settings, call.overrides.system) # <<>>) =>
        LET instruction == EffectiveSystem(settings, call.overrides.system)
        IN CASE request.provider = "openai" ->
                   /\ request.messages = <<Msg("system", instruction)>> \o call.messages
                   /\ ~request.hasSystem
             [] request.provider = "anthropic" ->
                   /\ request.messages = call.messages
                   /\ \A k \in 1..Len(request.messages) : request.messages[k].role # "system"
                   /\ request.hasSystem
                   /\ request.system = instruction
             [] request.provider = "gemini" ->
                   /\ Len(request.messages) = Len(call.messages)
                   /\ \A k \in 1..Len(call.messages) :
                         /\ request.messages[k].content = call.messages[k].content
                         /\ request.messages[k].role =
                               (IF call.messages[k].role = "assistant" THEN "model" ELSE "user")
                   /\ request.hasSystem
                   /\ request.system = instruction
             [] OTHER -> FALSE

\* C9 witness: a request of the OpenAI adapter for a conversation with user
\* and assistant turns
C9_Witness_OpenAIConversation ==
    /\ request.sent
    /\ request.provider = "openai"
    /\ Len(call.messages) >= 3
    /\ \E k \in 1..Len(call.messages) : call.messages[k].role = "assistant"

\* the system instruction that reached the adapter
SentSystem ==
    IF request.provider = "openai"
    THEN (IF request.messages # <<>> /\ Head(request.messages).role = "system"
          THEN Head(request.messages).content ELSE <<>>)
    ELSE request.system

\* the system override of the document
DocumentSystemOverride == IF file.present THEN frontmatter.system ELSE <<>>

\* the instruction the claim names, with the tool instructions the handler
\* adds
ClaimedSystem ==
    IF DocumentSystemOverride = <<>> THEN settings.systemPrompt \o ToolInstructions
    ELSE IF StartsWith(DocumentSystemOverride, Sentinel)
         THEN settings.systemPrompt \o Drop(DocumentSystemOverride, 3) \o ToolInstructions
         ELSE DocumentSystemOverride \o ToolInstructions

WithoutSpace(text) == SelectSeq(text, LAMBDA c : ~IsSpace(c))

\* C10: up to whitespace, the system instruction that reaches the adapter
\* is the override of the document when there is one that does not begin
\* with +++, the process default followed by the override without the +++
\* when it begins with +++, and the process default when there is no
\* override (each with the tool instructions the handler adds).
C10_EffectiveSystemInstruction ==
    request.sent => WithoutSpace(SentSystem) = WithoutSpace(ClaimedSystem)

\* the turns the testable property of the parser promises for a text
\* without separator
WholeTextAsUser(text) ==
    IF Trim(text) = <<>> THEN <<>> ELSE <<Msg("user", Trim(text))>>

\* C11 as stated: for every text containing no separator run, parseMessages
\* returns exactly one user turn whose content is the trimmed text, or no
\* turn when the trimmed text is empty.
C11_NoSeparatorOneUserTurn ==
    (parseDone /\ ~HasSeparatorRun(parseText)) => parsed = WholeTextAsUser(parseText)

\* C11 amended: for every text containing neither a separator run nor the
\* marker ai::, parseMessages returns exactly one user turn whose content is
\* the trimmed text, or no turn when the trimmed text is empty.
C11_NoSeparatorNoMarkerOneUserTurn ==
    (parseDone /\ ~HasSeparatorRun(parseText) /\ ~Contains(parseText, AiMarker))
        => parsed = WholeTextAsUser(parseText)

\* a text with underscores and blanks around a word, but no separator run
\* and no marker, was parsed to one turn
C11_Witness_TrimmedSingleTurn ==
    /\ parseDone
    /\ ~HasSeparatorRun(parseText)
    /\ ~Contains(parseText, AiMarker)
    /\ Len(parsed) = 1
    /\ Contains(parseText, <<US>>)
    /\ Trim(parseText) # parseText

SegmentLabels == {<<"g", "p", "t", "-", "9">>}
SegmentBodies == {<<"H", "e", "l", "l", "o">>}

\* C12: the segment ai::<label><newline><body> parses to one assistant
\* turn whose content is the trimmed body, and the single-line segment
\* ai::<label><space><body> parses to one assistant turn whose content is
\* the body, also when the label holds a non-word character such as "-".
C12_AssistantSegmentContent ==
    parseDone =>
        \A label \in SegmentLabels, body \in SegmentBodies :
            /\ parseText = AiMarker \o label \o <<NL>> \o body
                    => parsed = <<Msg("assistant", Trim(body))>>
            /\ parseText = AiMarker \o label \o <<SP>> \o body
                    => parsed = <<Msg("assistant", body)>>

\* C13: inserting whitespace between the underscores of a separator run
\* leaves the parsed turns (roles and contents) as they were.
C13_WhitespaceInsideSeparator ==
    parseDone => parsedSpaced = parsed

\* whitespace was inserted inside the separator between two turns
C13_Witness_SpacedSeparator ==
    /\ parseDone
    /\ spaced # parseText
    /\ Len(parsed) >= 2

\* C14: parsing and enrichment never raise: whatever the collaborators do
\* (a link that does not resolve, a target that is no text file, a read
\* of a linked or sibling note that fails), an invocation on a non-blank
\* document goes on to the dispatch and does not end with an unhandled
\* error.
C14_EnrichmentNeverRaises ==
    pc \notin {"idle", "rejected"} => (pc # "raised" /\ call.made)

\* the wrapper block of a note with its display name and its content
WrapperBlock(name, content) ==
    <<NL, NoteOpenTag, Quote>> \o name \o <<Quote, Gt>> \o content \o <<NL, NoteCloseTag, NL>>

\* the block a link to target adds: the wrapper of the text file it
\* resolves to, nothing when it does not resolve or resolves to no text file
BlockOf(target) ==
    LET dest == getFirstLinkpathDest(store, target, file.parent)
    IN IF dest # <<>> /\ Last(dest) \in {".md", ".txt"}
       THEN WrapperBlock(Basename(target), store[dest].content)
       ELSE <<>>

\* the blocks of the links of one grammar, left to right
BlocksOf(parts, kind) ==
    Flatten([k \in 1..Len(parts) |->
                IF parts[k].kind = kind THEN BlockOf(parts[k].target) ELSE <<>>])

\* C15: enriching a content c gives c, unchanged, followed by one wrapper
\* block per link that resolves to a text file: first those of the
\* bracketed links left to right, then those of the inline links left to
\* right; links that do not resolve or resolve to no text file add nothing.
C15_EnrichmentAppendsBlocksInOrder ==
    enrichDone =>
        enriched.text = LinkPartsText(linkParts)
                        \o BlocksOf(linkParts, "wiki") \o BlocksOf(linkParts, "md")

\* an inline link stands before a bracketed link, both resolve to text
\* files with different contents, and a third link adds nothing
C15_Witness_InlineBeforeBracketed ==
    /\ enrichDone
    /\ Len(linkParts) = 3
    /\ linkParts[1].kind = "md"
    /\ linkParts[2].kind = "wiki"
    /\ BlockOf(linkParts[1].target) # <<>>
    /\ BlockOf(linkParts[2].target) # <<>>
    /\ BlockOf(linkParts[1].target) # BlockOf(linkParts[2].target)
    /\ linkParts[3].kind # "text"
    /\ BlockOf(linkParts[3].target) = <<>>
    /\ enriched.reads = 2

\* s is t with tokens left out
RECURSIVE IsScattered(_, _)
IsScattered(s, t) ==
    IF s = <<>> THEN TRUE
    ELSE IF t = <<>> THEN FALSE
    ELSE IF Head(s) = Head(t) THEN IsScattered(Tail(s), Tail(t))
    ELSE IsScattered(s, Tail(t))

\* C16: the editor is append-only under every interleaving of invocations
\* and user edits: a write puts the reply after the text the editor holds
\* at that moment, which stays as an unchanged prefix, and the first text,
\* every reply written (in the order of the writes) and what the user
\* typed meanwhile are all in the editor afterwards.
C16_RepliesAppendedAtWriteTime ==
    /\ [][written' # written => doc' = doc \o Last(written')]_vars
    /\ []IsScattered(docStart \o Flatten(written), doc)

\* two invocations overlapped (both read the first text), the user typed
\* meanwhile, and both wrote a reply
C16_Witness_OverlappingWrites ==
    /\ \A i \in Invocations : runs[i].pc = "done" /\ runs[i].text = docStart
    /\ Len(written) = 2
    /\ written[1] # written[2]
    /\ edits >= 1
    /\ doc # docStart \o Flatten(written)

\* the reply the handler wrote: what processNoteCreation made of the reply
\* of callAI when the view has a file, that reply itself otherwise
FinalReply ==
    IF file.present
    THEN processNoteCreation(outcome.reply, file.parent, storeBefore, noteFails).text
    ELSE outcome.reply

\* C17: after a successful chat-mode invocation on the text D with the
\* final reply R, parsing the editor again gives the turns of D followed by
\* exactly one assistant turn whose content is R trimmed, for every D and
\* every R, an empty R included.
C17_RoundTripThroughDocument ==
    (pc = "done" /\ ~writeMode) =>
        parseMessages(doc) = parseMessages(docBefore) \o <<Msg("assistant", Trim(FinalReply))>>
====
